---- MODULE Spec2Model ----
(***************************************************************************)
(* Model of the problem-matcher engine of mod.ts: the default export       *)
(* (match), validateMatcher, singleMatch, loopMatch and runRegExp.         *)
(*                                                                         *)
(* A JavaScript string is a sequence of one-character strings; the value   *)
(* undefined is the one-element sequence Undefined, which no string of the *)
(* model equals.  One behaviour is one call match(matcher, input); under   *)
(* SpecTwice a second call with the same arguments follows it.             *)
(* iterations counts the outer iterations of loopMatch, call numbers the   *)
(* call, previous holds the outcome of the first call.                     *)
(***************************************************************************)
EXTENDS Integers, Sequences, FiniteSets, TLC

VARIABLES matcher, input, pc, lines, line, patterns, x, context, matches, result,
          iterations, call, previous

vars == <<matcher, input, pc, lines, line, patterns, x, context, matches, result,
          iterations, call, previous>>

(***************************************************************************)
(* Bounds of the model.                                                    *)
(***************************************************************************)
MaxInputLen == 5

(***************************************************************************)
(* JavaScript values.                                                      *)
(***************************************************************************)
Undefined == <<"undefined">>

Chars == {"a", " ", "\n"}

IsSpace(c) == c \in {" ", "\n", "\t"}

\* !v for a string-or-undefined value
Falsy(v) == v = Undefined \/ v = <<>>

\* An object literal {} and one own property read that may be absent
EmptyObject == [k \in {} |-> <<>>]

Prop(o, k) == IF k \in DOMAIN o THEN o[k] ELSE Undefined

\* push that adds at the front instead of the end
Push_Front(arr, v) == <<v>> \o arr

\* Array.prototype.push and Array.prototype.unshift, as the array that results
Push(arr, v) == Append(arr, v)

\* unshift that loses the value
Unshift_Drop(arr, v) == arr

\* unshift that puts the value in twice
Unshift_Twice(arr, v) == <<v, v>> \o arr

Unshift(arr, v) == <<v>> \o arr

\* a declaration that binds the array of the call before
NewArray_Shared(old) == old

\* the array a declaration "const matches = []" binds, whatever an earlier
\* call left behind
NewArray(old) == <<>>

\* Array.prototype.slice(0): a copy, so that shifting it leaves arr as it is
Slice(arr) == arr

\* a spread in which the left operand keeps its keys
Spread_FirstWins(a, b) == [k \in (DOMAIN a) \cup (DOMAIN b) |-> IF k \in DOMAIN a THEN a[k] ELSE b[k]]

\* { ...a, ...b }
Spread(a, b) == [k \in (DOMAIN a) \cup (DOMAIN b) |-> IF k \in DOMAIN b THEN b[k] ELSE a[k]]

(***************************************************************************)
(* String.prototype.split("\n") and String.prototype.trim()                *)
(***************************************************************************)
RECURSIVE SplitFrom(_, _, _)
SplitFrom(s, i, cur) ==
    IF i > Len(s) THEN <<cur>>
    ELSE IF s[i] = "\n" THEN <<cur>> \o SplitFrom(s, i + 1, <<>>)
    ELSE SplitFrom(s, i + 1, Append(cur, s[i]))

Split(s) == SplitFrom(s, 1, <<>>)

RECURSIVE TrimStart(_)
TrimStart(s) == IF s # <<>> /\ IsSpace(Head(s)) THEN TrimStart(Tail(s)) ELSE s

RECURSIVE TrimEnd(_)
TrimEnd(s) ==
    IF s # <<>> /\ IsSpace(s[Len(s)]) THEN TrimEnd(SubSeq(s, 1, Len(s) - 1)) ELSE s

Trim(s) == TrimEnd(TrimStart(s))

\* line === ""
IsBlank(l) == l = <<>>

(***************************************************************************)
(* The regular expressions of the modelled matchers, and line.match(re):   *)
(* NoMatch (null) or the match array s, s[0] the whole match and s[g] the  *)
(* text of group g.  "." matches no line terminator.                       *)
(***************************************************************************)
ReCtx == "^([^\\s].*)$"
ReLoop == "^\\s+(.*)$"
ReA == "^a(.+)$"

NoMatch == [ok |-> FALSE, s |-> <<>>]
Matched(whole, groups) == [ok |-> TRUE, s |-> <<whole>> \o groups]

NoTerminator(s) == \A i \in 1..Len(s) : s[i] # "\n"

RegExpMatch(re, l) ==
    CASE re = ReCtx ->
            IF Len(l) >= 1 /\ ~IsSpace(l[1]) /\ NoTerminator(l)
            THEN Matched(l, <<l>>)
            ELSE NoMatch
      [] re = ReLoop ->
            IF Len(l) >= 1 /\ IsSpace(l[1]) /\ NoTerminator(TrimStart(l))
            THEN Matched(l, <<TrimStart(l)>>)
            ELSE NoMatch
      [] re = ReA ->
            IF Len(l) >= 2 /\ l[1] = "a" /\ NoTerminator(l)
            THEN Matched(l, <<Tail(l)>>)
            ELSE NoMatch

\* s[g]: s[0] is the whole match; undefined for a group the regexp does not have
Group(m, g) == IF g + 1 \in DOMAIN m.s THEN m.s[g + 1] ELSE Undefined

(***************************************************************************)
(* Error messages                                                          *)
(***************************************************************************)
MsgNoMatcher == "No matcher provided"
MsgOwner == "No matcher.owner provided"
MsgNoPattern == "No matcher.pattern provided"
MsgNoInput == "No input provided"
MsgPattern == "matcher.pattern must be an array with at least one value"
MsgUnsupported == "Unsupported pattern configuration. We currently support single pattern and multi-line loop pattern configurations"
MsgGroup0 == "Group 0 is not a valid capture group (it contains the entire matched string)"
MsgInvalidGroup(g, k) ==
    "Invalid capture group provided. Group " \o ToString(g) \o " (" \o k \o ") does not exist in regexp"
MsgTypeError(what, prop) ==
    "TypeError: Cannot read properties of " \o what \o " (reading '" \o prop \o "')"

(***************************************************************************)
(* runRegExp: null, a record, or a thrown error.                           *)
(* A pattern is [regexp, loop, fields]; fields lists the own keys other    *)
(* than regexp and loop in declaration order, each with its group index.   *)
(***************************************************************************)
Null == [kind |-> "null", value |-> EmptyObject, error |-> ""]
Value(v) == [kind |-> "value", value |-> v, error |-> ""]
Throw(m) == [kind |-> "throw", value |-> EmptyObject, error |-> m]

\* the projection with group 0 accepted as the whole match
RECURSIVE ProjectFields_NoZeroTest(_, _, _)
ProjectFields_NoZeroTest(s, fields, acc) ==
    IF fields = <<>> THEN Value(acc)
    ELSE LET k == Head(fields).k
             g == Head(fields).g
         IN  IF Falsy(Group(s, g)) THEN Throw(MsgInvalidGroup(g, k))
             ELSE ProjectFields_NoZeroTest(s, Tail(fields),
                                           Spread(acc, [f \in {k} |-> Trim(Group(s, g))]))

\* the projection that looks for a group 0 among all fields before any other test
RECURSIVE ProjectFields_ZeroFirst(_, _, _)
ProjectFields_ZeroFirst(s, fields, acc) ==
    IF \E i \in 1..Len(fields) : fields[i].g = 0 THEN Throw(MsgGroup0)
    ELSE IF fields = <<>> THEN Value(acc)
    ELSE LET k == Head(fields).k
             g == Head(fields).g
         IN  IF Falsy(Group(s, g)) THEN Throw(MsgInvalidGroup(g, k))
             ELSE ProjectFields_ZeroFirst(s, Tail(fields),
                                          Spread(acc, [f \in {k} |-> Trim(Group(s, g))]))

RECURSIVE ProjectFields(_, _, _)
ProjectFields(s, fields, acc) ==
    IF fields = <<>> THEN Value(acc)
    ELSE LET k == Head(fields).k
             g == Head(fields).g
         IN  IF g = 0 THEN Throw(MsgGroup0)
             ELSE IF Falsy(Group(s, g)) THEN Throw(MsgInvalidGroup(g, k))
             ELSE ProjectFields(s, Tail(fields), Spread(acc, [f \in {k} |-> Trim(Group(s, g))]))

\* the fallback taken only when no severity key was produced
DefaultSeverity_OnlyAbsent(m, sev) ==
    IF "severity" \notin DOMAIN m THEN Spread(m, [f \in {"severity"} |-> sev]) ELSE m

\* the fallback that sets no severity key when the matcher has no severity
DefaultSeverity_SkipUndefined(m, sev) ==
    IF Falsy(Prop(m, "severity")) /\ sev # Undefined
    THEN Spread(m, [f \in {"severity"} |-> sev]) ELSE m

DefaultSeverity(m, sev) ==
    IF Falsy(Prop(m, "severity")) THEN Spread(m, [f \in {"severity"} |-> sev]) ELSE m

\* runRegExp with the group 0 test made before the regexp is tried
runRegExp_ValidateFirst(re, l, pattern, mt) ==
    LET s == RegExpMatch(re, l)
    IN  IF \E i \in 1..Len(pattern.fields) : pattern.fields[i].g = 0 THEN Throw(MsgGroup0)
        ELSE IF ~s.ok THEN Null
        ELSE LET p == ProjectFields(s, pattern.fields, EmptyObject)
             IN  IF p.kind = "throw" THEN p
                 ELSE Value(DefaultSeverity(p.value, mt.severity))

runRegExp(re, l, pattern, mt) ==
    LET s == RegExpMatch(re, l)
    IN  IF ~s.ok THEN Null
        ELSE LET p == ProjectFields(s, pattern.fields, EmptyObject)
             IN  IF p.kind = "throw" THEN p
                 ELSE Value(DefaultSeverity(p.value, mt.severity))

\* a context that is replaced by the outcome of the pattern
MergeContext_Replace(ctx, r) == IF r.kind = "null" THEN EmptyObject ELSE r.value

\* context = { ...context, ...r }, r the outcome of runRegExp (null or a record)
MergeContext(ctx, r) == IF r.kind = "null" THEN ctx ELSE Spread(ctx, r.value)

(***************************************************************************)
(* The matchers and inputs of the model.  A matcher is [defined, owner,    *)
(* severity, pattern]; pattern is [type, items], type "array" for an       *)
(* array, "object" for another object, "undefined" when absent.  The loop  *)
(* flag is set on the last pattern only ("only valid on the last pattern   *)
(* of a multipattern matcher").                                            *)
(***************************************************************************)
F(k, g) == [k |-> k, g |-> g]

Pattern(re, loop, fields) == [regexp |-> re, loop |-> loop, fields |-> fields]

NoPattern == Pattern("", FALSE, <<>>)

Array(items) == [type |-> "array", items |-> items]
NotArray == [type |-> "object", items |-> <<>>]
Absent == [type |-> "undefined", items |-> <<>>]

Matcher(owner, severity, pattern) ==
    [defined |-> TRUE, owner |-> owner, severity |-> severity, pattern |-> pattern]

NoMatcher == [defined |-> FALSE, owner |-> Undefined, severity |-> Undefined, pattern |-> Absent]

Owner == <<"e", "s", "l", "i", "n", "t">>
SevError == <<"E", "r", "r", "o", "r">>

FieldLists ==
    { <<>>,
      <<F("file", 1)>>,
      <<F("severity", 1)>>,
      <<F("message", 0)>>,
      <<F("code", 2)>>,
      <<F("message", 0), F("code", 2)>>,
      <<F("code", 2), F("message", 0)>>,
      <<F("file", 1), F("code", 2)>>,
      <<F("file", 1), F("severity", 1)>> }

SinglePatterns ==
    { Pattern(re, FALSE, f) : re \in {ReLoop, ReA}, f \in FieldLists }
        \cup { Pattern(ReCtx, TRUE, <<F("file", 1)>>) }

ContextPatterns ==
    { Pattern(ReCtx, FALSE, <<F("file", 1)>>),
      Pattern(ReA, FALSE, <<F("severity", 1)>>),
      Pattern(ReCtx, FALSE, <<F("message", 0)>>),
      Pattern(ReA, FALSE, <<F("file", 1), F("code", 2)>>) }

LoopPatterns ==
    { Pattern(ReLoop, TRUE, <<>>),
      Pattern(ReLoop, TRUE, <<F("file", 1)>>),
      Pattern(ReLoop, TRUE, <<F("severity", 1)>>),
      Pattern(ReLoop, TRUE, <<F("message", 0)>>),
      Pattern(ReLoop, TRUE, <<F("code", 2)>>),
      Pattern(ReA, TRUE, <<F("severity", 1)>>),
      Pattern(ReCtx, TRUE, <<F("code", 2)>>),
      Pattern(ReCtx, TRUE, <<>>),
      Pattern(ReCtx, TRUE, <<F("message", 1)>>) }

PatternArrays ==
    { <<p>> : p \in SinglePatterns }
        \cup { <<c, l>> : c \in ContextPatterns, l \in LoopPatterns }
        \cup { <<Pattern(ReCtx, FALSE, <<F("file", 1)>>),
                 Pattern(ReA, FALSE, <<F("file", 1), F("severity", 1)>>),
                 Pattern(ReLoop, TRUE, <<F("message", 1)>>)>>,
               <<Pattern(ReA, FALSE, <<F("file", 1)>>),
                 Pattern(ReCtx, FALSE, <<F("file", 1)>>),
                 Pattern(ReLoop, TRUE, <<>>)>> }
        \cup { <<Pattern(ReCtx, FALSE, <<F("message", 1)>>),
                 Pattern(ReLoop, FALSE, <<F("message", 1)>>)>>,
               <<Pattern(ReCtx, FALSE, <<F("message", 0)>>),
                 Pattern(ReLoop, FALSE, <<>>),
                 Pattern(ReA, FALSE, <<>>)>> }

MalformedPatterns == {Absent, NotArray, Array(<<>>)}

Matchers ==
    { Matcher(Owner, sev, Array(ps)) : sev \in {SevError, Undefined}, ps \in PatternArrays }
        \cup { Matcher(Owner, SevError, p) : p \in MalformedPatterns }
        \cup { Matcher(o, SevError, p) :
                 o \in {Undefined, <<>>},
                 p \in MalformedPatterns \cup
                       { Array(<<Pattern(ReA, FALSE, <<F("file", 1)>>)>>),
                         Array(<<Pattern(ReCtx, FALSE, <<F("file", 1)>>),
                                 Pattern(ReLoop, TRUE, <<>>)>>) } }
        \cup { NoMatcher }

Inputs == UNION { [1..n -> Chars] : n \in 0..MaxInputLen } \cup { Undefined }

(***************************************************************************)
(* validateMatcher: the message it throws, or "" when it returns.          *)
(***************************************************************************)
IsArray(v) == v.type = "array"

\* validateMatcher without the Array.isArray test
validateMatcher_NoIsArray(m) ==
    IF ~m.defined THEN MsgTypeError("undefined", "pattern")
    ELSE IF Len(m.pattern.items) < 1 /\ m.pattern.type # "object" THEN MsgPattern
    ELSE ""

validateMatcher(m) ==
    IF ~m.defined THEN MsgTypeError("undefined", "pattern")
    ELSE IF ~IsArray(m.pattern) \/ Len(m.pattern.items) < 1 THEN MsgPattern
    ELSE ""

(***************************************************************************)
(* The call match(matcher, input)                                          *)
(***************************************************************************)
Running == [status |-> "running", value |-> <<>>, error |-> ""]
Returned(v) == [status |-> "returned", value |-> v, error |-> ""]
Thrown(m) == [status |-> "thrown", value |-> <<>>, error |-> m]

Init ==
    /\ matcher \in Matchers
    /\ input \in Inputs
    /\ pc = "match"
    /\ lines = <<>>
    /\ line = Undefined
    /\ patterns = <<>>
    /\ x = NoPattern
    /\ context = EmptyObject
    /\ matches = <<>>
    /\ result = Running
    /\ iterations = 0
    /\ call = 1
    /\ previous = Running

\* throw new Error(m): the call ends, nothing is returned
ThrowError(m) ==
    /\ result' = Thrown(m)
    /\ pc' = "done"

Validate ==
    /\ pc = "match"
    /\ IF validateMatcher(matcher) # ""
       THEN ThrowError(validateMatcher(matcher))
       ELSE pc' = "dispatch" /\ UNCHANGED result
    /\ UNCHANGED <<iterations, call, previous, matcher, input, lines, line, patterns, x, context, matches>>

\* the dispatch without the test of the last pattern's loop flag
DispatchMode_NoLoopTest(m) ==
    IF Len(m.pattern.items) = 1 THEN "singleMatch" ELSE "loopMatch"

\* the function the default export hands the call to, or "throw"
DispatchMode(m) ==
    LET items == m.pattern.items
        loopPattern == items[Len(items)]
    IN  IF Len(items) = 1 THEN "singleMatch"
        ELSE IF loopPattern.loop THEN "loopMatch"
        ELSE "throw"

Dispatch ==
    /\ pc = "dispatch"
    /\ IF DispatchMode(matcher) = "throw"
       THEN ThrowError(MsgUnsupported)
       ELSE pc' = DispatchMode(matcher) /\ UNCHANGED result
    /\ UNCHANGED <<iterations, call, previous, matcher, input, lines, line, patterns, x, context, matches>>

(***************************************************************************)
(* singleMatch; its result array (named lines in the source) is matches,   *)
(* and lines holds the lines the for loop has yet to visit.                *)
(***************************************************************************)
SingleStart ==
    /\ pc = "singleMatch"
    /\ IF input = Undefined
       THEN ThrowError(MsgTypeError("undefined", "split")) /\ UNCHANGED <<lines, matches>>
       ELSE /\ lines' = Split(input)
            /\ matches' = NewArray(matches)
            /\ pc' = "singleFor"
            /\ UNCHANGED result
    /\ UNCHANGED <<iterations, call, previous, matcher, input, line, patterns, x, context>>

SingleLine ==
    /\ pc = "singleFor"
    /\ lines # <<>>
    /\ line' = Head(lines)
    /\ lines' = Tail(lines)
    /\ LET pattern == matcher.pattern.items[1]
           r == runRegExp(pattern.regexp, Head(lines), pattern, matcher)
       IN  CASE r.kind = "throw" -> ThrowError(r.error) /\ UNCHANGED matches
             [] r.kind = "null" -> UNCHANGED <<pc, result, matches>>
             [] r.kind = "value" ->
                    matches' = Push(matches, r.value) /\ UNCHANGED <<pc, result>>
    /\ UNCHANGED <<iterations, call, previous, matcher, input, patterns, x, context>>

SingleReturn ==
    /\ pc = "singleFor"
    /\ lines = <<>>
    /\ result' = Returned(matches)
    /\ pc' = "done"
    /\ UNCHANGED <<iterations, call, previous, matcher, input, lines, line, patterns, x, context, matches>>

(***************************************************************************)
(* loopMatch                                                               *)
(***************************************************************************)
LoopStart ==
    /\ pc = "loopMatch"
    /\ IF input = Undefined
       THEN ThrowError(MsgTypeError("undefined", "split")) /\ UNCHANGED <<lines, matches>>
       ELSE /\ lines' = Split(input)
            /\ matches' = NewArray(matches)
            /\ pc' = "loopWhile"
            /\ UNCHANGED result
    /\ iterations' = 0
    /\ UNCHANGED <<call, previous, matcher, input, line, patterns, x, context>>

\* while (lines.length): one outer iteration begins, with its own context,
\* line, patterns and x ("let x" holds undefined until the first shift)
LoopWhile ==
    /\ pc = "loopWhile"
    /\ lines # <<>>
    /\ context' = EmptyObject
    /\ line' = Head(lines)
    /\ lines' = Tail(lines)
    /\ patterns' = Slice(matcher.pattern.items)
    /\ pc' = "patternsWhile"
    /\ x' = NoPattern
    /\ iterations' = iterations + 1
    /\ UNCHANGED <<call, previous, matcher, input, matches, result>>

LoopReturn ==
    /\ pc = "loopWhile"
    /\ lines = <<>>
    /\ result' = Returned(matches)
    /\ pc' = "done"
    /\ UNCHANGED <<iterations, call, previous, matcher, input, lines, line, patterns, x, context, matches>>

\* while ((x = patterns.shift())): the pattern is run on the current line;
\* the shift of an empty array assigns undefined to x and ends the loop
NextPattern ==
    /\ pc = "patternsWhile"
    /\ IF patterns = <<>>
       THEN /\ x' = NoPattern
            /\ pc' = "loopWhile"
            /\ UNCHANGED <<patterns, context, result>>
       ELSE /\ x' = Head(patterns)
            /\ patterns' = Tail(patterns)
            /\ IF line = Undefined
               THEN ThrowError(MsgTypeError("undefined", "match")) /\ UNCHANGED context
               ELSE LET r == runRegExp(x'.regexp, line, x', matcher)
                    IN  CASE r.kind = "throw" -> ThrowError(r.error) /\ UNCHANGED context
                          [] r.kind # "throw" /\ ~x'.loop ->
                                 /\ context' = MergeContext(context, r)
                                 /\ UNCHANGED <<pc, result>>
                          [] r.kind # "throw" /\ x'.loop ->
                                 pc' = "linesWhile" /\ UNCHANGED <<context, result>>
    /\ UNCHANGED <<iterations, call, previous, matcher, input, lines, line, matches>>

\* while ((line = lines.shift()) !== undefined): the loop phase
LoopLine ==
    /\ pc = "linesWhile"
    /\ IF lines = <<>>
       THEN /\ line' = Undefined
            /\ pc' = "patternsWhile"
            /\ UNCHANGED <<lines, matches, result>>
       ELSE /\ line' = Head(lines)
            /\ IF IsBlank(Head(lines))
               THEN lines' = Tail(lines) /\ UNCHANGED <<pc, matches, result>>
               ELSE LET r == runRegExp(x.regexp, Head(lines), x, matcher)
                    IN  CASE r.kind = "throw" ->
                                 /\ ThrowError(r.error)
                                 /\ lines' = Tail(lines)
                                 /\ UNCHANGED matches
                          [] r.kind = "null" ->
                                 /\ lines' = Unshift(Tail(lines), Head(lines))
                                 /\ pc' = "patternsWhile"
                                 /\ UNCHANGED <<matches, result>>
                          [] r.kind = "value" ->
                                 /\ matches' = Push(matches, Spread(context, r.value))
                                 /\ lines' = Tail(lines)
                                 /\ UNCHANGED <<pc, result>>
    /\ UNCHANGED <<iterations, call, previous, matcher, input, patterns, x, context>>

Next ==
    \/ Validate
    \/ Dispatch
    \/ SingleStart
    \/ SingleLine
    \/ SingleReturn
    \/ LoopStart
    \/ LoopWhile
    \/ LoopReturn
    \/ NextPattern
    \/ LoopLine

Spec == Init /\ [][Next]_vars

\* The caller invokes match again with the same matcher and input
CallAgain ==
    /\ pc = "done"
    /\ call = 1
    /\ call' = 2
    /\ previous' = result
    /\ result' = Running
    /\ pc' = "match"
    /\ UNCHANGED <<matcher, input, lines, line, patterns, x, context, matches, iterations>>

NextTwice == Next \/ CallAgain

SpecTwice == Init /\ [][NextTwice]_vars

(***************************************************************************)
(* Shapes of the call's arguments                                          *)
(***************************************************************************)
Items == matcher.pattern.items

\* validateMatcher returns: pattern is a non-empty array
ValidPattern == matcher.defined /\ IsArray(matcher.pattern) /\ Len(Items) >= 1

SinglePcs == {"singleMatch", "singleFor"}
LoopPcs == {"loopMatch", "loopWhile", "patternsWhile", "linesWhile"}

(***************************************************************************)
(* Validation                                                              *)
(***************************************************************************)
\* C1: a matcher whose owner is absent or empty is rejected with
\* "No matcher.owner provided" before any regex evaluation and without any
\* record, whether its pattern is a valid array or malformed.
C1_OwnerRejected ==
    (matcher.defined /\ Falsy(matcher.owner))
        => /\ pc \in {"match", "done"}
           /\ pc = "done" => result = Thrown(MsgOwner)

\* The first failing check of the documented validation order, "" when all pass
ExpectedValidation(m, in) ==
    IF ~m.defined THEN MsgNoMatcher
    ELSE IF Falsy(m.owner) THEN MsgOwner
    ELSE IF m.pattern.type = "undefined" THEN MsgNoPattern
    ELSE IF ~IsArray(m.pattern) \/ Len(m.pattern.items) < 1 THEN MsgPattern
    ELSE IF in = Undefined THEN MsgNoInput
    ELSE ""

\* C2: validation throws the message of the first failing check, in the order
\* matcher, owner, pattern absent, pattern not a non-empty array, input; no
\* mode is dispatched until all five checks have passed.
C2_ValidationOrder ==
    ExpectedValidation(matcher, input) # ""
        => /\ pc \in {"match", "done"}
           /\ pc = "done" => result = Thrown(ExpectedValidation(matcher, input))

\* C3: a matcher with an owner whose pattern is present but is not an array,
\* or is an empty array, throws "matcher.pattern must be an array with at
\* least one value" for every input, and no matcher function runs.
C3_PatternMustBeArray ==
    ( /\ matcher.defined
      /\ ~Falsy(matcher.owner)
      /\ matcher.pattern.type # "undefined"
      /\ (~IsArray(matcher.pattern) \/ Len(Items) = 0) )
        => /\ pc \in {"match", "done"}
           /\ pc = "done" => result = Thrown(MsgPattern)

C3_Witness ==
    /\ pc = "done"
    /\ ~Falsy(matcher.owner)
    /\ matcher.pattern = NotArray
    /\ input # Undefined /\ Len(input) = MaxInputLen
    /\ result = Thrown(MsgPattern)

(***************************************************************************)
(* Dispatch                                                                *)
(***************************************************************************)
\* C4: more than one pattern with the last one's loop flag not true always
\* throws the unsupported-configuration error, whatever the input; one
\* pattern always goes to singleMatch; several patterns with the last one's
\* loop flag true always go to loopMatch.
C4_Dispatch ==
    ValidPattern =>
        /\ (Len(Items) > 1 /\ ~Items[Len(Items)].loop)
              => /\ pc \in {"match", "dispatch", "done"}
                 /\ pc = "done" => result = Thrown(MsgUnsupported)
        /\ Len(Items) = 1
              => /\ pc \notin LoopPcs
                 /\ result # Thrown(MsgUnsupported)
                 /\ pc = "done" => (result.status = "returned" => lines = <<>>)
        /\ (Len(Items) > 1 /\ Items[Len(Items)].loop)
              => /\ pc \notin SinglePcs
                 /\ result # Thrown(MsgUnsupported)

C4_Witness ==
    /\ pc = "done"
    /\ ValidPattern
    /\ Len(Items) > 1
    /\ ~Items[Len(Items)].loop
    /\ input # Undefined
    /\ \E i \in 1..Len(Split(input)) : RegExpMatch(Items[1].regexp, Split(input)[i]).ok
    /\ result = Thrown(MsgUnsupported)

(***************************************************************************)
(* Single mode                                                             *)
(***************************************************************************)
\* The lines of ls that match the regexp of p, in order
MatchingLines(p, ls) == SelectSeq(ls, LAMBDA l : RegExpMatch(p.regexp, l).ok)

\* The least element of a non-empty set of numbers
Min(S) == CHOOSE i \in S : \A j \in S : i <= j

\* C5: with exactly one pattern the output is the sequence, in input line
\* order, of the projections of the lines that match the regexp: one record
\* per matching line, nothing for the others, the empty sequence and no error
\* when no line matches; a projection that throws ends the call with its error.
C5_SingleOutput ==
    (pc = "done" /\ ValidPattern /\ Len(Items) = 1 /\ input # Undefined) =>
        LET p == Items[1]
            ml == MatchingLines(p, Split(input))
            proj == [i \in 1..Len(ml) |-> runRegExp(p.regexp, ml[i], p, matcher)]
            throwing == {i \in 1..Len(ml) : proj[i].kind = "throw"}
        IN  IF throwing = {}
            THEN result = Returned([i \in 1..Len(ml) |-> proj[i].value])
            ELSE result = Thrown(proj[Min(throwing)].error)

C5_Witness ==
    /\ pc = "done"
    /\ Len(Items) = 1
    /\ result.status = "returned"
    /\ Len(result.value) = 2
    /\ result.value[1] # result.value[2]

(***************************************************************************)
(* The steps that run a pattern on a line (the calls of runRegExp), seen   *)
(* from the state before the step.                                         *)
(***************************************************************************)
Applies ==
    \/ pc = "singleFor" /\ lines # <<>>
    \/ pc = "patternsWhile" /\ patterns # <<>> /\ line # Undefined
    \/ pc = "linesWhile" /\ lines # <<>> /\ Head(lines) # <<>>

AppliedPattern ==
    CASE pc = "singleFor" -> Items[1]
      [] pc = "patternsWhile" -> Head(patterns)
      [] pc = "linesWhile" -> x

AppliedLine == IF pc = "patternsWhile" THEN line ELSE Head(lines)

\* The step appends one record to the output
Pushed == Len(matches') = Len(matches) + 1

Last(s) == s[Len(s)]

\* The group a pattern maps severity to, 0 when it declares none
SeverityGroup(p) ==
    LET S == {i \in 1..Len(p.fields) : p.fields[i].k = "severity"}
    IN  IF S = {} THEN 0 ELSE p.fields[Min(S)].g

(***************************************************************************)
(* Default severity                                                        *)
(***************************************************************************)
\* C6 as stated: a record whose match captures no severity has severity
\* matcher.severity; a record whose match captures one has the trimmed
\* captured text.
C6_SeverityAsStated ==
    [][Pushed =>
         LET g == SeverityGroup(AppliedPattern)
             s == RegExpMatch(AppliedPattern.regexp, AppliedLine)
         IN  IF g = 0
             THEN Last(matches').severity = matcher.severity
             ELSE Last(matches').severity = Trim(Group(s, g))]_vars

\* C6 amended: the record's severity is the trimmed captured text when the
\* match captures a severity that is not blank; it is matcher.severity
\* (possibly undefined) when the pattern captures none or the captured text
\* trims to the empty string.
C6_SeverityDefault ==
    [][Pushed =>
         LET g == SeverityGroup(AppliedPattern)
             s == RegExpMatch(AppliedPattern.regexp, AppliedLine)
         IN  IF g # 0 /\ Trim(Group(s, g)) # <<>>
             THEN Last(matches').severity = Trim(Group(s, g))
             ELSE Last(matches').severity = matcher.severity]_vars

\* a loop-mode record of a line whose captured severity is blank
C6_Witness ==
    /\ pc = "linesWhile"
    /\ matches # <<>>
    /\ line # Undefined
    /\ RegExpMatch(x.regexp, line).ok
    /\ SeverityGroup(x) = 1
    /\ Trim(Group(RegExpMatch(x.regexp, line), 1)) = <<>>
    /\ "severity" \in DOMAIN context
    /\ Last(matches).severity = matcher.severity

(***************************************************************************)
(* Capture-group errors                                                    *)
(***************************************************************************)
\* The call reached singleMatch or loopMatch with an input string
Supported == ValidPattern /\ DispatchMode(matcher) # "throw" /\ input # Undefined

InputLines == Split(input)

\* The first field of p, in declaration order, that is mapped to group 0 or
\* to a group without captured text in the match s; 0 when there is none
FirstInvalid(p, s) ==
    LET bad == {i \in 1..Len(p.fields) :
                   p.fields[i].g = 0 \/ Falsy(Group(s, p.fields[i].g))}
    IN  IF bad = {} THEN 0 ELSE Min(bad)

\* C7 as stated: a pattern that maps a field to group 0 makes the call throw
\* the group 0 error whether or not its regexp matches a line of the input.
C7_Group0AsStated ==
    ( /\ pc = "done"
      /\ Supported
      /\ \E i \in 1..Len(Items) : \E j \in 1..Len(Items[i].fields) :
             Items[i].fields[j].g = 0 )
        => result = Thrown(MsgGroup0)

\* C7 amended: the group 0 error is thrown exactly when a pattern is run on a
\* line that matches its regexp and the first invalid field of the pattern,
\* in declaration order, is mapped to group 0; running a pattern on a line
\* that does not match its regexp raises nothing.
C7_Group0OnMatch ==
    [][LET s == RegExpMatch(AppliedPattern.regexp, AppliedLine)
           i == FirstInvalid(AppliedPattern, s)
           zero == Applies /\ s.ok /\ i # 0 /\ AppliedPattern.fields[i].g = 0
       IN  /\ zero => (result' = Thrown(MsgGroup0) /\ pc' = "done")
           /\ (Applies /\ ~s.ok) => result' = result
           /\ (result'.error = MsgGroup0 /\ result.error # MsgGroup0) => zero]_vars

\* the group 0 error raised by a later line, after a line that does not match
C7_Witness ==
    /\ pc = "done"
    /\ result = Thrown(MsgGroup0)
    /\ input # Undefined
    /\ Len(InputLines) > 1
    /\ InputLines[1] # <<>>
    /\ \A j \in 1..Len(Items) : ~RegExpMatch(Items[j].regexp, InputLines[1]).ok

\* Field j of pattern i names a group g >= 1 that has no captured text when
\* the pattern matches line n of the input
Uncaptured(n, i, j) ==
    LET s == RegExpMatch(Items[i].regexp, InputLines[n])
    IN  /\ s.ok
        /\ Items[i].fields[j].g >= 1
        /\ Falsy(Group(s, Items[i].fields[j].g))

\* C8 as stated: whenever a line matches a pattern's regexp and a declared
\* field names a group g >= 1 without captured text in that match, the call
\* throws the invalid-capture-group error with the group and the name of
\* such a field.
C8_InvalidGroupAsStated ==
    ( /\ pc = "done"
      /\ Supported
      /\ \E n \in 1..Len(InputLines) : \E i \in 1..Len(Items) :
             \E j \in 1..Len(Items[i].fields) : Uncaptured(n, i, j) )
        => \E n \in 1..Len(InputLines) : \E i \in 1..Len(Items) :
               \E j \in 1..Len(Items[i].fields) :
                   /\ Uncaptured(n, i, j)
                   /\ result = Thrown(MsgInvalidGroup(Items[i].fields[j].g,
                                                      Items[i].fields[j].k))

\* C8 amended: whenever a pattern is run on a line that matches its regexp and
\* the first invalid field of the pattern, in declaration order, names a group
\* g >= 1 without captured text, the call throws the invalid-capture-group
\* error with that g and that field and returns no record.
C8_InvalidGroupOnMatch ==
    [][LET s == RegExpMatch(AppliedPattern.regexp, AppliedLine)
           i == FirstInvalid(AppliedPattern, s)
       IN  (Applies /\ s.ok /\ i # 0 /\ AppliedPattern.fields[i].g >= 1)
               => /\ result' = Thrown(MsgInvalidGroup(AppliedPattern.fields[i].g,
                                                      AppliedPattern.fields[i].k))
                  /\ result'.value = <<>>
                  /\ pc' = "done"]_vars

\* the error of a later line discards the record of an earlier one
C8_Witness ==
    /\ pc = "done"
    /\ result = Thrown(MsgInvalidGroup(1, "file"))
    /\ matches # <<>>

\* C9: when no line of the input matches the regexp of any pattern, a
\* supported matcher returns the empty sequence and throws nothing, also when
\* its field mappings are invalid.
NoLineMatches ==
    \A n \in 1..Len(InputLines) : \A i \in 1..Len(Items) :
        ~RegExpMatch(Items[i].regexp, InputLines[n]).ok

C9_NoMatchNoError ==
    (Supported /\ NoLineMatches)
        => /\ result.status # "thrown"
           /\ pc = "done" => result = Returned(<<>>)

\* loop mode, invalid mappings, a non-blank line, nothing matches
C9_Witness ==
    /\ pc = "done"
    /\ Supported
    /\ NoLineMatches
    /\ Len(Items) > 1
    /\ \E i \in 1..Len(Items) : \E j \in 1..Len(Items[i].fields) :
           Items[i].fields[j].g # 1
    /\ \E n \in 1..Len(InputLines) : InputLines[n] # <<>>
    /\ result = Returned(<<>>)

(***************************************************************************)
(* The loop phase                                                          *)
(***************************************************************************)
\* C10: the loop phase pops lines from the front until the queue is empty or
\* a non-blank line fails the loop regexp; a blank line is consumed without a
\* record and without ending the phase; the non-blank line that fails is put
\* back at the front, nothing else is, and it is the context line the next
\* outer iteration pops.
C10_LoopPhase ==
    [][/\ pc = "linesWhile" =>
            IF lines = <<>> THEN pc' = "patternsWhile" /\ lines' = <<>> /\ matches' = matches
            ELSE IF Head(lines) = <<>>
            THEN pc' = "linesWhile" /\ lines' = Tail(lines) /\ matches' = matches
            ELSE IF ~RegExpMatch(x.regexp, Head(lines)).ok
            THEN /\ pc' = "patternsWhile"
                 /\ lines' = lines
                 /\ line' = Head(lines)
                 /\ matches' = matches
            ELSE /\ lines' = Tail(lines)
                 /\ pc' = "linesWhile" => Pushed
       /\ (pc = "patternsWhile" /\ patterns = <<>> /\ line # Undefined)
              => lines # <<>> /\ Head(lines) = line /\ pc' = "loopWhile" /\ lines' = lines
       /\ (pc = "loopWhile" /\ line # Undefined /\ lines # <<>>)
              => Head(lines) = line /\ line' = line /\ lines' = Tail(lines)
                    /\ pc' = "patternsWhile"]_vars

\* a blank line was consumed, a record produced, and the line that ended the
\* phase has just been popped as the next context line
C10_Witness ==
    /\ pc = "patternsWhile"
    /\ Len(patterns) = Len(Items)
    /\ matches # <<>>
    /\ line # <<>>
    /\ Len(InputLines) >= 3
    /\ InputLines[2] = <<>>

(***************************************************************************)
(* Records of the loop matcher                                             *)
(***************************************************************************)
Max(S) == CHOOSE m \in S : \A n \in S : n <= m

\* The position in the input of the line at the front of the queue
FrontIndex == Len(InputLines) - Len(lines) + 1

\* The position of the context line of the outer iteration in which line n
\* is popped by the loop phase: the nearest line before n that is the first
\* line or a non-blank line the loop regexp fails on
CtxIndex(n) ==
    Max({m \in 1..(n - 1) :
            m = 1 \/ (InputLines[m] # <<>> /\ ~RegExpMatch(Last(Items).regexp, InputLines[m]).ok)})

\* The positions of the non-loop patterns that match line l
CtxMatching(l) ==
    {i \in 1..(Len(Items) - 1) : runRegExp(Items[i].regexp, l, Items[i], matcher).kind = "value"}

CtxFields(i, l) == runRegExp(Items[i].regexp, l, Items[i], matcher).value

\* The keys the non-loop patterns capture from line l, and for such a key the
\* value of the last pattern that captures it
CtxKeys(l) == UNION {DOMAIN CtxFields(i, l) : i \in CtxMatching(l)}

CtxValue(l, k) == CtxFields(Max({i \in CtxMatching(l) : k \in DOMAIN CtxFields(i, l)}), l)[k]

\* C11: a record pushed by the loop matcher has the keys of the loop line's
\* projection and of the context captured from the context line of the same
\* outer iteration, and no other; on a key of the projection it has the
\* projection's value, on a key of the context alone the context's value.
C11_RecordIsOverlay ==
    [][(pc = "linesWhile" /\ Pushed) =>
          LET rec == Last(matches')
              proj == runRegExp(Last(Items).regexp, Head(lines), Last(Items), matcher).value
              ctxLine == InputLines[CtxIndex(FrontIndex)]
          IN  /\ DOMAIN rec = DOMAIN proj \cup CtxKeys(ctxLine)
              /\ \A k \in DOMAIN proj : rec[k] = proj[k]
              /\ \A k \in CtxKeys(ctxLine) \ DOMAIN proj : rec[k] = CtxValue(ctxLine, k)]_vars

\* a record was pushed that has a key of the context alone with the context's
\* value, and a key both captured on which the two values differ
C11_Witness ==
    /\ pc = "linesWhile"
    /\ matches # <<>>
    /\ Len(matches) = FrontIndex - 2
    /\ LET rec == Last(matches)
           ctxLine == InputLines[CtxIndex(FrontIndex - 1)]
       IN  /\ "file" \in CtxKeys(ctxLine)
           /\ "severity" \in CtxKeys(ctxLine)
           /\ "message" \in DOMAIN rec
           /\ rec.file = CtxValue(ctxLine, "file")
           /\ rec.severity # CtxValue(ctxLine, "severity")

(***************************************************************************)
(* Two calls with the same arguments                                       *)
(***************************************************************************)
\* C12: no step of a call changes the matcher (its pattern sequence
\* included) or the input, and a second call with the same matcher and input
\* ends as the first did: the same records in the same order, or the same
\* error.
C12_NoHiddenState ==
    [][/\ matcher' = matcher
       /\ input' = input
       /\ (call' = 2 /\ pc' = "done") => result' = previous']_vars

\* the second call of a loop matcher has returned records, after its loop
\* consumed the copy of a pattern sequence of more than one pattern
C12_Witness ==
    /\ call = 2
    /\ pc = "done"
    /\ Len(Items) > 1
    /\ patterns = <<>>
    /\ previous.status = "returned"
    /\ previous.value # <<>>
    /\ result = previous

(***************************************************************************)
(* Termination of the loop matcher                                         *)
(***************************************************************************)
\* The position of the loop matcher within one outer iteration
Rank ==
    CASE pc = "linesWhile" -> 3
      [] pc = "patternsWhile" -> 2
      [] pc = "loopWhile" -> 1
      [] OTHER -> 0

\* The step makes (length of the queue, patterns left, position) smaller in
\* the lexicographic order
Decreases ==
    \/ Len(lines') < Len(lines)
    \/ Len(lines') = Len(lines) /\ Len(patterns') < Len(patterns)
    \/ Len(lines') = Len(lines) /\ Len(patterns') = Len(patterns) /\ Rank' < Rank

\* C13: the loop matcher terminates.  The start of an outer iteration pops
\* exactly one line, no later step of the iteration makes the queue longer
\* (the loop phase puts back only the line it has just popped), every step
\* makes the triple (queue length, patterns left, position) smaller in a
\* well-founded order, and the outer iterations begun and the lines still
\* queued never exceed the lines of the input together.
C13_LoopTerminates ==
    [][(pc \in {"loopWhile", "patternsWhile", "linesWhile"}) =>
          (/\ Len(lines') <= Len(lines)
           /\ (pc = "loopWhile" /\ pc' = "patternsWhile") => Len(lines') = Len(lines) - 1
           /\ Decreases
           /\ iterations' + Len(lines') <= Len(InputLines))]_vars

\* the matcher has returned records after more than one outer iteration, the
\* later one begun with a line the loop phase had put back
C13_Witness ==
    /\ pc = "done"
    /\ Len(Items) > 1
    /\ result.status = "returned"
    /\ iterations >= 2
    /\ iterations < Len(InputLines)
    /\ matches # <<>>

(***************************************************************************)
(* The loop pattern and the context line                                   *)
(***************************************************************************)
\* C14 as stated: the loop pattern is not applied to the context line, so
\* the step of the context pass that takes the loop pattern raises no error
\* and goes on to the loop phase.  The code runs runRegExp on the context
\* line for every pattern, the loop pattern included, and only discards the
\* outcome; a thrown error is not discarded.
C14_LoopPatternSparesContextLine ==
    [][(pc = "patternsWhile" /\ patterns # <<>> /\ Head(patterns).loop /\ line # Undefined) =>
          /\ result' = result
          /\ pc' = "linesWhile"]_vars

(***************************************************************************)
(* The context pass                                                        *)
(***************************************************************************)
\* C15: with more than one non-loop pattern, each step of the context pass
\* that takes a non-loop pattern runs it on the one line popped at the start
\* of the outer iteration and leaves that line and the queue as they are; a
\* pattern that does not match leaves the context as it is, one that matches
\* adds its fields and overrides the fields already there; so when the loop
\* pattern is reached the context holds, for each key some non-loop pattern
\* captured from that line, the value of the last pattern that captured it.
C15_ContextPass ==
    [][(pc = "patternsWhile" /\ patterns # <<>> /\ Len(Items) >= 3) =>
          LET p == Head(patterns)
              r == runRegExp(p.regexp, line, p, matcher)
          IN  /\ line = InputLines[FrontIndex - 1]
              /\ iterations + Len(lines) <= Len(InputLines)
              /\ lines' = lines
              /\ line' = line
              /\ (~p.loop /\ r.kind = "null") => context' = context
              /\ (~p.loop /\ r.kind = "value") =>
                     /\ DOMAIN context' = DOMAIN context \cup DOMAIN r.value
                     /\ \A k \in DOMAIN r.value : context'[k] = r.value[k]
                     /\ \A k \in DOMAIN context \ DOMAIN r.value : context'[k] = context[k]
              /\ p.loop =>
                     /\ DOMAIN context = CtxKeys(line)
                     /\ \A k \in CtxKeys(line) : context[k] = CtxValue(line, k)]_vars

\* the context pass of a matcher with two non-loop patterns has reached the
\* loop pattern; both patterns matched the context line with different
\* values for file, and the context holds the value of the second
C15_Witness ==
    /\ pc = "patternsWhile"
    /\ Len(Items) = 3
    /\ Len(patterns) = 1
    /\ CtxMatching(line) = {1, 2}
    /\ "file" \in DOMAIN CtxFields(1, line) \cap DOMAIN CtxFields(2, line)
    /\ CtxFields(1, line).file # CtxFields(2, line).file
    /\ context.file = CtxFields(2, line).file
    /\ Len(lines) = Len(InputLines) - 1

(***************************************************************************)
(* The output of the loop matcher                                          *)
(***************************************************************************)
\* Line n of the input is popped as a context line: the first line, or a
\* non-empty line the loop regexp fails on
IsCtxLine(n) ==
    n = 1 \/ (InputLines[n] # <<>> /\ ~RegExpMatch(Last(Items).regexp, InputLines[n]).ok)

\* Line n is a line after the first that is not empty and matches the loop
\* regexp
IsLoopLine(n) ==
    n > 1 /\ InputLines[n] # <<>> /\ RegExpMatch(Last(Items).regexp, InputLines[n]).ok

\* The positions of such lines, in input order
LoopLines == SelectSeq([n \in 1..Len(InputLines) |-> n], IsLoopLine)

\* The outcome of pattern i on line n
Applied(i, n) == runRegExp(Items[i].regexp, InputLines[n], Items[i], matcher)

\* The error line n raises, "" when it raises none: for a context line the
\* first error of the patterns run on it in their order, for a line of the
\* loop phase the error of the loop pattern's projection
ErrorAt(n) ==
    LET throwing == {i \in 1..Len(Items) : Applied(i, n).kind = "throw"}
    IN  IF IsCtxLine(n)
        THEN IF throwing = {} THEN "" ELSE Applied(Min(throwing), n).error
        ELSE IF IsLoopLine(n) THEN Applied(Len(Items), n).error
        ELSE ""

ThrowingLines == {n \in 1..Len(InputLines) : ErrorAt(n) # ""}

\* Every field of every pattern maps to the one group its regexp has
ValidMappings ==
    \A i \in 1..Len(Items) : \A j \in 1..Len(Items[i].fields) : Items[i].fields[j].g = 1

\* C16 as stated, for inputs whose context lines raise nothing: with field
\* mappings that name an existing group, the loop matcher returns, and its
\* records are, one for one and in input order, the lines after the first
\* that are not empty and match the loop regexp.
C16_LoopOutputAsStated ==
    (/\ pc = "done" /\ Supported /\ Len(Items) > 1
     /\ ValidMappings
     /\ \A n \in 1..Len(InputLines) : IsCtxLine(n) => ErrorAt(n) = "") =>
        /\ result.status = "returned"
        /\ Len(result.value) = Len(LoopLines)

\* C16 amended: when no line raises an error the loop matcher returns, and
\* its records are, one for one and in input order, the lines after the
\* first that are not empty and match the loop regexp, the i-th record with
\* the fields of the projection of the i-th such line; the first line, an
\* empty line and a line the loop regexp fails on give no record.  When some
\* line raises an error (a mapped group that is 0, missing or captured as
\* the empty string), the call ends with the error of the first such line
\* and returns nothing.
C16_LoopOutput ==
    (pc = "done" /\ Supported /\ Len(Items) > 1) =>
        IF ThrowingLines = {}
        THEN /\ result.status = "returned"
             /\ Len(result.value) = Len(LoopLines)
             /\ \A i \in 1..Len(LoopLines) :
                    LET proj == Applied(Len(Items), LoopLines[i]).value
                    IN  \A k \in DOMAIN proj : result.value[i][k] = proj[k]
        ELSE result = Thrown(ErrorAt(Min(ThrowingLines)))

\* the loop matcher returned two different records, the first from the
\* earlier line and the second from the later one
C16_Witness ==
    /\ pc = "done"
    /\ Len(Items) > 1
    /\ result.status = "returned"
    /\ Len(LoopLines) = 2
    /\ Len(result.value) = 2
    /\ "message" \in DOMAIN result.value[1] \cap DOMAIN result.value[2]
    /\ result.value[1].message = Trim(InputLines[LoopLines[1]])
    /\ result.value[2].message = Trim(InputLines[LoopLines[2]])
    /\ result.value[1].message # result.value[2].message

(***************************************************************************)
(* Severity of a loop record                                               *)
(***************************************************************************)
\* C17: a record pushed by the loop matcher has a severity key, and its
\* value is the one of the loop line's projection whatever the context
\* holds: the severity the loop pattern captured from the loop line when
\* that is not empty, and otherwise matcher.severity, undefined included.
C17_LoopSeverity ==
    [][(pc = "linesWhile" /\ Pushed) =>
          LET rec == Last(matches')
              proj == runRegExp(x.regexp, Head(lines), x, matcher).value
              g == SeverityGroup(x)
              captured == IF g = 0 THEN <<>>
                          ELSE Trim(Group(RegExpMatch(x.regexp, Head(lines)), g))
          IN  /\ "severity" \in DOMAIN rec
              /\ "severity" \in DOMAIN proj
              /\ rec.severity = proj.severity
              /\ rec.severity = IF captured # <<>> THEN captured ELSE matcher.severity]_vars

\* a record was pushed in an outer iteration whose context holds a severity
\* captured from the context line; the loop pattern captures none and the
\* matcher has none, and the record's severity is undefined
C17_Witness ==
    /\ pc = "linesWhile"
    /\ matches # <<>>
    /\ "severity" \in DOMAIN context
    /\ context.severity # Undefined
    /\ SeverityGroup(x) = 0
    /\ matcher.severity = Undefined
    /\ Last(matches).severity = Undefined

====
